---------------------------- MODULE Spec2Model ----------------------------
(***************************************************************************)
(* Mock Signal server: the test-facing Server of src/src/api/server.ts.    *)
(*                                                                         *)
(* The module holds these specifications over one set of variables; each   *)
(* one drives a group of handlers:                                         *)
(*   SpecQueue     one PromiseQueue under arbitrary callers                *)
(*   SpecListen    listen / close                                          *)
(*   SpecServer    listen / createPrimaryDevice                            *)
(*   SpecManifest  onStorageManifestUpdate / waitForStorageManifest        *)
(*   SpecLink      linking a secondary device, createSecondaryDevice       *)
(*   SpecWaits     the harness-blocking waits under fair scheduling        *)
(*   SpecSchemas   validation of request bodies (src/src/data/schemas.ts)  *)
(*   SpecRendezvous  the link without timeouts, under fair scheduling      *)
(*   SpecLifecycle   listen / close / createPrimaryDevice in any order     *)
(*   SpecMessages    handleMessage beside the creation of devices          *)
(* PromiseQueue (src/util), the base Server (src/server/base) and          *)
(* PrimaryDevice (src/api/primary-device) are not part of the sources at   *)
(* hand; their behaviour is taken from the specification document.         *)
(***************************************************************************)
EXTENDS Integers, Sequences, FiniteSets, TLC

(***************************************************************************)
(* Bounds of the model                                                     *)
(***************************************************************************)
MaxCallers == 3
MaxOps == 4
CustomTimeout == 1000
MaxNumbers == 3
MaxRegistrationId == 2
MaxPrimaryCalls == 2
MaxListenCalls == 2
MaxAccounts == 1
MaxWaiters == 2
MaxVersion == 2
MaxAttempts == 2
MaxSecondaryCalls == 1
MaxWaitAttempts == 1
MaxHashes == 22
IdMargin == 1

(***************************************************************************)
(* Program constants                                                       *)
(***************************************************************************)
DEFAULT_API_TIMEOUT == 60000
PRIMARY_DEVICE_ID == 1

VARIABLES
  config,      \* Server.config (only the timeout matters here)
  queue,       \* heap of PromiseQueue objects: queue id -> queue state
  inbox,       \* per asynchronous caller: the settled result of its pending await
  caller,      \* SpecQueue: the callers of the queue under test
  nextOp,      \* SpecQueue: number of queue calls started so far
  served,      \* SpecQueue: tickets of shift calls in the order they received a value
  delivered,   \* SpecQueue: values in the order they were delivered
  pushed,      \* SpecQueue: values handed to push / pushAndWait
  expired,     \* SpecQueue: values and tickets whose call timed out
  https,       \* Server.https: whether the field is set, and whether it was closed
  emptyAttachment,  \* Server.emptyAttachment: whether the field is set
  listeners,   \* number of https servers created by listen()
  attachments, \* number of blobs stored through storeAttachment
  knownNumbers,     \* Server.knownNumbers
  primaryDevices,   \* Server.primaryDevices: key (number or uuid) -> primary
  devices,     \* base server: the registered devices, in registration order
  cpd,         \* the createPrimaryDevice calls
  lsn,         \* the listen calls
  manifestQueueByUuid,  \* Server.manifestQueueByUuid: account uuid -> queue
  lastVersion, \* base server: the storage manifest version of each account
  wsm,         \* the waitForStorageManifest calls (the waiters)
  provisionResultQueueByCode,  \* Server.provisionResultQueueByCode: code -> resultQueue
  provisionResultQueueByKey,   \* Server.provisionResultQueueByKey: key -> resultQueue
  provisioningCodes,  \* base server: the codes issued, each with the number it is for
  keysUploaded,       \* base server: the devices whose key upload has finished
  secondaryDevices,   \* PrimaryDevice: the devices added by addSecondaryDevice
  gpr,         \* the getProvisioningResponse calls, one per link attempt
  harness,     \* the harness tasks: waitForProvision, then complete
  pd,          \* the provisionDevice calls awaiting super.provisionDevice
  udk,         \* the clients' updateDeviceKeys calls, per device
  csd,         \* the createSecondaryDevice calls
  hist,        \* per link attempt: the states it has entered, in order
  request,     \* the body of a request handed to validation
  verdict,     \* what validation said of it
  handled,     \* PrimaryDevice: the handleEnvelope calls it got, per account uuid
  hm           \* the handleMessage calls so far, and the last of them

queueVars == <<queue, inbox>>
callerVars == <<caller, nextOp, served, delivered, pushed, expired>>
serverVars == <<https, emptyAttachment, listeners, attachments, knownNumbers,
                primaryDevices, cpd, lsn>>
baseVars == <<devices>>
manifestVars == <<manifestQueueByUuid, lastVersion, wsm>>
mapVars == <<provisionResultQueueByCode, provisionResultQueueByKey>>
schemaVars == <<request, verdict>>
messageVars == <<handled, hm>>
linkVars == <<provisionResultQueueByCode, provisionResultQueueByKey, provisioningCodes,
              keysUploaded, secondaryDevices, gpr, harness, pd, udk, csd, hist>>
\* what the actions of one specification leave alone
queueFrame == <<serverVars, baseVars, manifestVars, linkVars, schemaVars, messageVars>>
serverFrame == <<config, queueVars, callerVars, manifestVars, linkVars, schemaVars,
                 messageVars>>
manifestFrame == <<config, callerVars, serverVars, baseVars, linkVars,
                  schemaVars, messageVars>>
linkFrame == <<config, callerVars, serverVars, manifestVars, schemaVars, messageVars>>
schemaFrame == <<config, queueVars, callerVars, serverVars, baseVars, manifestVars,
                linkVars, messageVars>>
messageFrame == <<config, queueVars, callerVars, serverVars, baseVars, manifestVars,
                 linkVars, schemaVars>>
vars == <<config, queue, inbox, caller, nextOp, served, delivered, pushed, expired,
          https, emptyAttachment, listeners, attachments, knownNumbers,
          primaryDevices, devices, cpd, lsn, manifestQueueByUuid, lastVersion, wsm,
          provisionResultQueueByCode, provisionResultQueueByKey, provisioningCodes,
          keysUploaded, secondaryDevices, gpr, harness, pd, udk, csd, hist,
          request, verdict, handled, hm>>

(***************************************************************************)
(* Identities                                                              *)
(***************************************************************************)
Callers == 1..MaxCallers
NoProc == <<"none", 0>>
CallerProc(i) == <<"caller", i>>
Waiters == 1..MaxWaiters
WaiterProc(w) == <<"waiter", w>>
Attempts == 1..MaxAttempts               \* link attempts; attempt a asks with uuid a
Harnesses == 1..MaxAttempts              \* harness tasks
SecondaryCalls == 1..MaxSecondaryCalls
MaxDevices == MaxAccounts + MaxAttempts + MaxSecondaryCalls
DeviceIds == 1..MaxDevices               \* a device is named by its place in devices
GprProc(a) == <<"gpr", a>>
HarnessProc(h) == <<"harness", h>>
UdkProc(d) == <<"udk", d>>
CsdProc(k) == <<"csd", k>>
AllProcs ==
  {CallerProc(i) : i \in Callers} \cup {WaiterProc(w) : w \in Waiters}
  \cup {GprProc(a) : a \in Attempts} \cup {HarnessProc(h) : h \in Harnesses}
  \cup {UdkProc(d) : d \in DeviceIds} \cup {CsdProc(k) : k \in SecondaryCalls}

ProvisionQ == <<"provision", 0>>
ManifestQ(u) == <<"manifest", u>>
ResponseQ(a) == <<"response", a>>         \* responseQueue of link attempt a
ResultQ(a) == <<"result", a>>             \* resultQueue of link attempt a
Accounts == 1..MaxAccounts               \* the accounts made by createPrimaryDevice
Versions == 1..MaxVersion                \* storage manifest versions

Numbers == 1..MaxNumbers                 \* the E164 numbers generateRandomE164 draws
RegistrationIds == 1..MaxRegistrationId  \* registration ids, drawn or sent by a client
PrimaryCalls == 1..MaxPrimaryCalls
ListenCalls == 1..MaxListenCalls
NumberKey(n) == <<"number", n>>
UuidKey(u) == <<"uuid", u>>

(***************************************************************************)
(* Settled results of an await                                             *)
(***************************************************************************)
None == [st |-> "none", v |-> 0]
Pending == [st |-> "pending", v |-> 0]
Ack == [st |-> "ack", v |-> 0]
QueueTimeout == [st |-> "timeout", v |-> 0]
Value(v) == [st |-> "value", v |-> v]

(***************************************************************************)
(* Server.constructor: config = {timeout: DEFAULT_API_TIMEOUT, ...config}  *)
(***************************************************************************)
NoConfig == [has |-> FALSE, timeout |-> 0]
WithTimeout(t) == [has |-> TRUE, timeout |-> t]

constructor_noDefault(given) ==
  [timeout |-> given.timeout]

constructor(given) ==
  [timeout |-> IF given.has THEN given.timeout ELSE DEFAULT_API_TIMEOUT]

(***************************************************************************)
(* Server.createQueue: new PromiseQueue({timeout: this.config.timeout})    *)
(***************************************************************************)
createQueue_noTimeout(cfg) ==
  [entries |-> <<>>, resolvers |-> <<>>, timeout |-> 0]

createQueue(cfg) ==
  [entries |-> <<>>, resolvers |-> <<>>, timeout |-> cfg.timeout]

(***************************************************************************)
(* PromiseQueue.  entries: values pushed and not yet taken, oldest first,  *)
(* each with the caller awaiting its acknowledgement (NoProc for push());  *)
(* resolvers: the shift callers waiting for a value, oldest first.         *)
(* Each operator maps a heap and the inboxes to the new heap and inboxes.  *)
(***************************************************************************)
RemoveAt(s, i) == SubSeq(s, 1, i - 1) \o SubSeq(s, i + 1, Len(s))

Range(s) == {s[i] : i \in 1..Len(s)}

IndexOf(s, x) == CHOOSE i \in 1..Len(s) : s[i] = x

Settle(ib, p, r) == IF p = NoProc THEN ib ELSE [ib EXCEPT ![p] = r]

\* the waiter a pushed value is handed to
NextResolver_newest(q) == Len(q.resolvers)

NextResolver(q) == 1

\* pushAndWait(v) by p; push(v) is the same with p = NoProc
QPush_broadcast(qs, ib, q, v, p) ==
  IF qs[q].resolvers # <<>>
  THEN [queue |-> [qs EXCEPT ![q].resolvers = <<>>],
        inbox |-> Settle([x \in DOMAIN ib |->
                            IF x \in Range(qs[q].resolvers) THEN Value(v) ELSE ib[x]],
                         p, Ack)]
  ELSE [queue |-> [qs EXCEPT ![q].entries = Append(@, [value |-> v, pusher |-> p])],
        inbox |-> Settle(ib, p, Pending)]

QPush(qs, ib, q, v, p) ==
  IF qs[q].resolvers # <<>>
  THEN LET i == NextResolver(qs[q])
       IN [queue |-> [qs EXCEPT ![q].resolvers = RemoveAt(@, i)],
           inbox |-> Settle(Settle(ib, qs[q].resolvers[i], Value(v)), p, Ack)]
  ELSE [queue |-> [qs EXCEPT ![q].entries = Append(@, [value |-> v, pusher |-> p])],
        inbox |-> Settle(ib, p, Pending)]

\* shift() by p
QShift_newest(qs, ib, q, p) ==
  IF qs[q].entries # <<>>
  THEN LET e == qs[q].entries[Len(qs[q].entries)]
       IN [queue |-> [qs EXCEPT ![q].entries = SubSeq(@, 1, Len(@) - 1)],
           inbox |-> Settle(Settle(ib, e.pusher, Ack), p, Value(e.value))]
  ELSE [queue |-> [qs EXCEPT ![q].resolvers = Append(@, p)],
        inbox |-> Settle(ib, p, Pending)]

QShift(qs, ib, q, p) ==
  IF qs[q].entries # <<>>
  THEN LET e == Head(qs[q].entries)
       IN [queue |-> [qs EXCEPT ![q].entries = Tail(@)],
           inbox |-> Settle(Settle(ib, e.pusher, Ack), p, Value(e.value))]
  ELSE [queue |-> [qs EXCEPT ![q].resolvers = Append(@, p)],
        inbox |-> Settle(ib, p, Pending)]

\* the timeout of p's pending shift() on q fires
QExpireShift_keep(qs, ib, q, p) ==
  [queue |-> qs, inbox |-> Settle(ib, p, QueueTimeout)]

QExpireShift(qs, ib, q, p) ==
  [queue |-> [qs EXCEPT ![q].resolvers = RemoveAt(@, IndexOf(@, p))],
   inbox |-> Settle(ib, p, QueueTimeout)]

\* the timeout of p's pending pushAndWait() on q fires
QExpirePush_keep(qs, ib, q, p) ==
  [queue |-> qs, inbox |-> Settle(ib, p, QueueTimeout)]

QExpirePush(qs, ib, q, p) ==
  [queue |-> [qs EXCEPT ![q].entries =
                 RemoveAt(@, CHOOSE i \in 1..Len(@) : @[i].pusher = p)],
   inbox |-> Settle(ib, p, QueueTimeout)]

WaitsInShift(q, p) == p \in Range(queue[q].resolvers)

WaitsInPush(q, p) == \E i \in 1..Len(queue[q].entries) : queue[q].entries[i].pusher = p

HasTimeout(q) == queue[q].timeout > 0

(***************************************************************************)
(* The server after construction                                           *)
(***************************************************************************)
NoDevices == <<>>

NoVersion == [defined |-> FALSE, v |-> 0]
Version(v) == [defined |-> TRUE, v |-> v]
IdleWaiter == [pc |-> "idle", uuid |-> 0, after |-> NoVersion, taken |-> <<>>]

\* no request is under validation
NoRequest == [schema |-> "none"]

InitSchemaState == request = NoRequest /\ verdict = "none"

\* no handleMessage call yet
NoMessage == [n |-> 0, target |-> 0, source |-> FALSE, sealed |-> FALSE, outcome |-> "none"]
InitMessageState == handled = [u \in 1..MaxPrimaryCalls |-> 0] /\ hm = NoMessage

\* lines 114-118 and the base server: no link attempt, no code, no call in flight
InitLinkState ==
  /\ provisionResultQueueByCode = <<>>
  /\ provisionResultQueueByKey = <<>>
  /\ provisioningCodes = <<>>
  /\ keysUploaded = {}
  /\ secondaryDevices = [u \in Accounts |-> {}]
  /\ gpr = [a \in Attempts |-> "idle"]
  /\ harness = [h \in Harnesses |-> [pc |-> "idle", pending |-> 0, result |-> 0]]
  /\ pd = {}
  /\ udk = [d \in DeviceIds |-> "idle"]
  /\ csd = [k \in SecondaryCalls |-> [pc |-> "idle", primary |-> 0, device |-> 0]]
  /\ hist = [a \in Attempts |-> <<>>]

InitServerState ==
  /\ https = [set |-> FALSE, closed |-> FALSE]
  /\ emptyAttachment = FALSE
  /\ listeners = 0
  /\ attachments = 0
  /\ knownNumbers = {}
  /\ primaryDevices = <<>>
  /\ devices = NoDevices
  /\ cpd = [k \in PrimaryCalls |-> [pc |-> "idle", number |-> 0, device |-> 0]]
  /\ lsn = [l \in ListenCalls |-> "idle"]
  /\ manifestQueueByUuid = <<>>
  /\ lastVersion = [u \in Accounts |-> 0]
  /\ wsm = [w \in Waiters |-> IdleWaiter]
  /\ InitLinkState

(***************************************************************************)
(* Server.generateNumber: draw numbers until one is not in knownNumbers.   *)
(* The loop has no await, so it runs in one step; its results are the      *)
(* draws that end it.                                                      *)
(***************************************************************************)
generateNumber_noCheck(known) == Numbers

generateNumber(known) == {n \in Numbers : ~(n \in known)}

(***************************************************************************)
(* Base server: registerDevice appends a device of the account; device ids *)
(* of an account count up from PRIMARY_DEVICE_ID.                          *)
(***************************************************************************)
DevicesOf(ds, uuid) == {i \in 1..Len(ds) : ds[i].uuid = uuid}

registerDevice_primaryId(ds, uuid, number, registrationId, code) ==
  Append(ds, [uuid |-> uuid,
              deviceId |-> PRIMARY_DEVICE_ID,
              number |-> number,
              registrationId |-> registrationId,
              code |-> code])

registerDevice(ds, uuid, number, registrationId, code) ==
  Append(ds, [uuid |-> uuid,
              deviceId |-> PRIMARY_DEVICE_ID + Cardinality(DevicesOf(ds, uuid)),
              number |-> number,
              registrationId |-> registrationId,
              code |-> code])

(***************************************************************************)
(* Server.listen                                                           *)
(***************************************************************************)
\* lines 151-156: the check of this.https, then await storeAttachment
ListenStart(l) ==
  /\ lsn[l] = "idle"
  /\ IF l = 1 THEN TRUE ELSE lsn[l - 1] # "idle"   \* calls are named in start order
  /\ IF https.set
     THEN lsn' = [lsn EXCEPT ![l] = "failed"] /\ UNCHANGED attachments
     ELSE lsn' = [lsn EXCEPT ![l] = "storing"] /\ attachments' = attachments + 1
  /\ UNCHANGED <<serverFrame, https, emptyAttachment, listeners, knownNumbers, primaryDevices, cpd,
                 devices>>

\* lines 158-182: emptyAttachment, createServer, this.https = server, server.listen
ListenCreate(l) ==
  /\ lsn[l] = "storing"
  /\ emptyAttachment' = TRUE
  /\ listeners' = listeners + 1
  /\ https' = [set |-> TRUE, closed |-> FALSE]
  /\ lsn' = [lsn EXCEPT ![l] = "binding"]
  /\ UNCHANGED <<serverFrame, attachments, knownNumbers, primaryDevices, cpd, devices>>

\* line 182: the listen callback resolves the promise
ListenDone(l) ==
  /\ lsn[l] = "binding"
  /\ lsn' = [lsn EXCEPT ![l] = "done"]
  /\ UNCHANGED <<serverFrame, https, emptyAttachment, listeners, attachments, knownNumbers,
                 primaryDevices, cpd, devices>>

(***************************************************************************)
(* Server.close: this.https stays set                                      *)
(***************************************************************************)
Close ==
  /\ https.set /\ ~https.closed
  /\ https' = [https EXCEPT !.closed = TRUE]
  /\ UNCHANGED <<serverFrame, emptyAttachment, listeners, attachments, knownNumbers, primaryDevices,
                 cpd, lsn, devices>>

(***************************************************************************)
(* Server.createPrimaryDevice                                              *)
(***************************************************************************)
\* line 241: generateNumber
CreatePrimaryNumber(k) ==
  /\ cpd[k].pc = "idle"
  /\ IF k = 1 THEN TRUE ELSE cpd[k - 1].pc # "idle"   \* calls are named in start order
  /\ \E n \in generateNumber(knownNumbers) :
       /\ knownNumbers' = knownNumbers \cup {n}
       /\ cpd' = [cpd EXCEPT ![k] = [@ EXCEPT !.pc = "number", !.number = n]]
  /\ UNCHANGED <<serverFrame, https, emptyAttachment, listeners, attachments, primaryDevices, lsn,
                 devices>>

\* lines 243-251: fresh uuid and pni, a registration id, registerDevice
CreatePrimaryRegister(k) ==
  /\ cpd[k].pc = "number"
  /\ \E r \in RegistrationIds :
       devices' = registerDevice(devices, k, cpd[k].number, r, 0)
  /\ cpd' = [cpd EXCEPT ![k] = [@ EXCEPT !.pc = "registered", !.device = Len(devices')]]
  /\ UNCHANGED <<serverFrame, https, emptyAttachment, listeners, attachments, knownNumbers,
                 primaryDevices, lsn>>

\* lines 256-264: the check of emptyAttachment, then await storeAttachment
CreatePrimaryContacts(k) ==
  /\ cpd[k].pc = "registered"
  /\ IF emptyAttachment
     THEN cpd' = [cpd EXCEPT ![k].pc = "storing"] /\ attachments' = attachments + 1
     ELSE cpd' = [cpd EXCEPT ![k].pc = "failed"] /\ UNCHANGED attachments
  /\ UNCHANGED <<serverFrame, https, emptyAttachment, listeners, knownNumbers, primaryDevices, lsn,
                 devices>>

\* lines 268-292: new PrimaryDevice, await primary.init() (which changes nothing
\* of the server), primaryDevices.set(number), primaryDevices.set(uuid), return
CreatePrimaryDone(k) ==
  /\ cpd[k].pc = "storing"
  /\ primaryDevices' = (NumberKey(cpd[k].number) :> k) @@ (UuidKey(k) :> k)
                         @@ primaryDevices
  /\ cpd' = [cpd EXCEPT ![k].pc = "done"]
  /\ UNCHANGED <<serverFrame, https, emptyAttachment, listeners, attachments, knownNumbers, lsn,
                 devices>>

\* SpecListen: the harness calls listen() and close()
NextListen ==
  \/ \E l \in ListenCalls : ListenStart(l)
  \/ \E l \in ListenCalls : ListenCreate(l)
  \/ \E l \in ListenCalls : ListenDone(l)
  \/ Close

\* SpecServer: the harness calls listen() once and createPrimaryDevice()
NextServer ==
  \/ ListenStart(1)
  \/ ListenCreate(1)
  \/ ListenDone(1)
  \/ \E k \in PrimaryCalls : CreatePrimaryNumber(k)
  \/ \E k \in PrimaryCalls : CreatePrimaryRegister(k)
  \/ \E k \in PrimaryCalls : CreatePrimaryContacts(k)
  \/ \E k \in PrimaryCalls : CreatePrimaryDone(k)

InitServer ==
  /\ config = constructor(NoConfig)
  /\ queue = (ProvisionQ :> createQueue(config))
  /\ inbox = [p \in AllProcs |-> None]
  /\ caller = [i \in Callers |-> [pc |-> "idle", op |-> 0]]
  /\ nextOp = 0 /\ served = <<>> /\ delivered = <<>> /\ pushed = {} /\ expired = {}
  /\ InitServerState
  /\ InitSchemaState
  /\ InitMessageState

SpecListen == InitServer /\ [][NextListen]_vars

SpecServer == InitServer /\ [][NextServer]_vars

\* C5: generateNumber never hands the same number to two createPrimaryDevice
\* calls, knownNumbers never loses a number, and it holds every number handed
\* out so far.
C5_NumbersUnique ==
  [][/\ knownNumbers \subseteq knownNumbers'
     /\ \A j, k \in PrimaryCalls :
          (j # k /\ cpd'[j].number # 0 /\ cpd'[k].number # 0)
            => cpd'[j].number # cpd'[k].number
     /\ \A k \in PrimaryCalls : cpd'[k].number # 0 => cpd'[k].number \in knownNumbers'
    ]_vars

\* two createPrimaryDevice calls are in flight together, each with its number
C5_Witness ==
  \E j, k \in PrimaryCalls :
    /\ j # k
    /\ cpd[j].pc = "number" /\ cpd[k].pc = "registered"
    /\ Cardinality(knownNumbers) = 2

(***************************************************************************)
(* The server once the harness has called listen() and, for each account,  *)
(* createPrimaryDevice(), and these calls have returned: account u has     *)
(* uuid u, number u and a primary device with registration id regs[u].     *)
(* (SpecServer reaches this state: see EstablishedReached.)                *)
(***************************************************************************)
RECURSIVE PrimariesOf(_, _)
PrimariesOf(n, regs) ==
  IF n = 0 THEN NoDevices
  ELSE registerDevice(PrimariesOf(n - 1, regs), n, n, regs[n], 0)

Established(regs) ==
  /\ https = [set |-> TRUE, closed |-> FALSE]
  /\ emptyAttachment = TRUE
  /\ listeners = 1
  /\ attachments = 1 + MaxAccounts
  /\ knownNumbers = Accounts
  /\ primaryDevices = [key \in {NumberKey(u) : u \in Accounts}
                              \cup {UuidKey(u) : u \in Accounts} |-> key[2]]
  /\ devices = PrimariesOf(MaxAccounts, regs)
  /\ cpd = [k \in PrimaryCalls |->
              IF k \in Accounts THEN [pc |-> "done", number |-> k, device |-> k]
              ELSE [pc |-> "idle", number |-> 0, device |-> 0]]
  /\ lsn = [l \in ListenCalls |-> IF l = 1 THEN "done" ELSE "idle"]

EstablishedReached == \E regs \in [Accounts -> RegistrationIds] : Established(regs)

\* the registration ids are interchangeable: the primary devices drew the first
InitEstablished ==
  /\ config = constructor(NoConfig)
  /\ queue = (ProvisionQ :> createQueue(config))
  /\ inbox = [p \in AllProcs |-> None]
  /\ caller = [i \in Callers |-> [pc |-> "idle", op |-> 0]]
  /\ nextOp = 0 /\ served = <<>> /\ delivered = <<>> /\ pushed = {} /\ expired = {}
  /\ Established([u \in Accounts |-> 1])
  /\ InitLinkState
  /\ InitSchemaState
  /\ InitMessageState
  /\ manifestQueueByUuid = <<>>
  /\ lastVersion = [u \in Accounts |-> 0]
  /\ wsm = [w \in Waiters |-> IdleWaiter]

(***************************************************************************)
(* Storage manifest notifications                                          *)
(***************************************************************************)
\* the accounts are interchangeable: account u + 1 gets its queue after account u
InOrder(u) == IF u = 1 THEN TRUE ELSE (u - 1) \in DOMAIN manifestQueueByUuid

\* lines 221-225 and 459-463: the account's queue, made on first use
ManifestQueues(u) ==
  IF u \in DOMAIN manifestQueueByUuid THEN queue
  ELSE (ManifestQ(u) :> createQueue(config)) @@ queue

\* Server.onStorageManifestUpdate(device of account u, version v), called by
\* the base server after a storage write that raised the version to v
OnStorageManifestUpdate_twice(u, v) ==
  /\ v > lastVersion[u] /\ InOrder(u)
  /\ lastVersion' = [lastVersion EXCEPT ![u] = v]
  /\ manifestQueueByUuid' = (u :> ManifestQ(u)) @@ manifestQueueByUuid
  /\ LET r1 == QPush(ManifestQueues(u), inbox, ManifestQ(u), v, NoProc)
         r == QPush(r1.queue, r1.inbox, ManifestQ(u), v, NoProc)
     IN queue' = r.queue /\ inbox' = r.inbox
  /\ UNCHANGED <<manifestFrame, wsm>>

OnStorageManifestUpdate_noPush(u, v) ==
  /\ v > lastVersion[u] /\ InOrder(u)
  /\ lastVersion' = [lastVersion EXCEPT ![u] = v]
  /\ manifestQueueByUuid' = (u :> ManifestQ(u)) @@ manifestQueueByUuid
  /\ queue' = ManifestQueues(u)
  /\ UNCHANGED <<manifestFrame, wsm, inbox>>

OnStorageManifestUpdate_fresh(u, v) ==
  /\ v > lastVersion[u] /\ InOrder(u)
  /\ lastVersion' = [lastVersion EXCEPT ![u] = v]
  /\ manifestQueueByUuid' = (u :> ManifestQ(u)) @@ manifestQueueByUuid
  /\ LET fresh == [ManifestQueues(u) EXCEPT ![ManifestQ(u)].entries = <<>>]
         r == QPush(fresh, inbox, ManifestQ(u), v, NoProc)
     IN queue' = r.queue /\ inbox' = r.inbox
  /\ UNCHANGED <<manifestFrame, wsm>>

OnStorageManifestUpdate(u, v) ==
  /\ v > lastVersion[u] /\ InOrder(u)
  /\ lastVersion' = [lastVersion EXCEPT ![u] = v]
  /\ manifestQueueByUuid' = (u :> ManifestQ(u)) @@ manifestQueueByUuid
  /\ LET r == QPush(ManifestQueues(u), inbox, ManifestQ(u), v, NoProc)
     IN queue' = r.queue /\ inbox' = r.inbox
  /\ UNCHANGED <<manifestFrame, wsm>>

\* Server.waitForStorageManifest(device of account u, afterVersion), lines
\* 221-229: the account's queue, then the first shift of the loop
WaitForStorageManifest(w, u, after) ==
  /\ wsm[w].pc = "idle" /\ InOrder(u)
  /\ IF w = 1 THEN TRUE ELSE wsm[w - 1].pc # "idle"   \* waiters are named in start order
  /\ manifestQueueByUuid' = (u :> ManifestQ(u)) @@ manifestQueueByUuid
  /\ LET r == QShift(ManifestQueues(u), inbox, ManifestQ(u), WaiterProc(w))
     IN queue' = r.queue /\ inbox' = r.inbox
  /\ wsm' = [wsm EXCEPT ![w] = [@ EXCEPT !.pc = "shift", !.uuid = u, !.after = after]]
  /\ UNCHANGED <<manifestFrame, lastVersion>>

\* lines 229-230: a version arrives; the loop shifts again or the call returns
WaitForStorageManifestNext_less(w) ==
  /\ wsm[w].pc = "shift"
  /\ inbox[WaiterProc(w)].st = "value"
  /\ LET v == inbox[WaiterProc(w)].v
         u == wsm[w].uuid
         took == [wsm EXCEPT ![w].taken = Append(@, v)]
     IN IF wsm[w].after.defined /\ v < wsm[w].after.v
        THEN /\ LET r == QShift(queue, inbox, ManifestQ(u), WaiterProc(w))
                IN queue' = r.queue /\ inbox' = r.inbox
             /\ wsm' = took
        ELSE /\ wsm' = [took EXCEPT ![w].pc = "done"]
             /\ inbox' = [inbox EXCEPT ![WaiterProc(w)] = None]
             /\ UNCHANGED queue
  /\ UNCHANGED <<manifestFrame, manifestQueueByUuid, lastVersion>>

WaitForStorageManifestNext(w) ==
  /\ wsm[w].pc = "shift"
  /\ inbox[WaiterProc(w)].st = "value"
  /\ LET v == inbox[WaiterProc(w)].v
         u == wsm[w].uuid
         took == [wsm EXCEPT ![w].taken = Append(@, v)]
     IN IF wsm[w].after.defined /\ v <= wsm[w].after.v
        THEN /\ LET r == QShift(queue, inbox, ManifestQ(u), WaiterProc(w))
                IN queue' = r.queue /\ inbox' = r.inbox
             /\ wsm' = took
        ELSE /\ wsm' = [took EXCEPT ![w].pc = "done"]
             /\ inbox' = [inbox EXCEPT ![WaiterProc(w)] = None]
             /\ UNCHANGED queue
  /\ UNCHANGED <<manifestFrame, manifestQueueByUuid, lastVersion>>

\* line 229: the timeout of the pending shift fires and the await throws
\* QueueTimeout out of waitForStorageManifest
WaitForStorageManifestExpire(w) ==
  /\ wsm[w].pc = "shift"
  /\ inbox[WaiterProc(w)] = Pending
  /\ HasTimeout(ManifestQ(wsm[w].uuid))
  /\ LET r == QExpireShift(queue, inbox, ManifestQ(wsm[w].uuid), WaiterProc(w))
     IN queue' = r.queue /\ inbox' = [r.inbox EXCEPT ![WaiterProc(w)] = None]
  /\ wsm' = [wsm EXCEPT ![w].pc = "failed"]
  /\ UNCHANGED <<manifestFrame, manifestQueueByUuid, lastVersion>>

AfterVersions == {NoVersion} \cup {Version(v) : v \in 0..(MaxVersion - 1)}

NextManifest ==
  \/ \E u \in Accounts, v \in Versions : OnStorageManifestUpdate(u, v)
  \/ \E w \in Waiters, u \in Accounts, after \in AfterVersions :
       WaitForStorageManifest(w, u, after)
  \/ \E w \in Waiters : WaitForStorageManifestNext(w)
  \/ \E w \in Waiters : WaitForStorageManifestExpire(w)

SpecManifest == InitEstablished /\ [][NextManifest]_vars

(***************************************************************************)
(* Claims about storage manifest notifications (SpecManifest)              *)
(***************************************************************************)
\* the waiters waiting on account u's queue, oldest first
WaitingOn(u) ==
  IF u \in DOMAIN manifestQueueByUuid THEN queue[ManifestQ(u)].resolvers ELSE <<>>

\* C6 as claimed: a manifest update of an account settles the shift of every
\* waiter that is waiting on the account's queue with the new version.
C6_AllWaitersSignalled ==
  [][\A u \in Accounts :
       lastVersion'[u] # lastVersion[u] =>
         \A k \in 1..Len(WaitingOn(u)) :
           inbox'[WaitingOn(u)[k]] = Value(lastVersion'[u])
    ]_vars

\* C6 as amended: a manifest update of an account settles the shift of exactly
\* one waiting waiter, the one that has waited longest, with the new version;
\* the other waiters stay waiting, in the same order.
C6_OneWaiterSignalled ==
  [][\A u \in Accounts :
       (lastVersion'[u] # lastVersion[u] /\ WaitingOn(u) # <<>>) =>
         /\ inbox'[Head(WaitingOn(u))] = Value(lastVersion'[u])
         /\ queue'[ManifestQ(u)].resolvers = Tail(WaitingOn(u))
         /\ queue'[ManifestQ(u)].entries = <<>>
         /\ \A k \in 2..Len(WaitingOn(u)) : inbox'[WaitingOn(u)[k]] = Pending
    ]_vars

\* a waiter holds the newest version of an account while another waiter is
\* still waiting on the same queue
C6_Witness ==
  \E u \in Accounts : \E v, w \in Waiters :
    /\ v # w
    /\ wsm[v].pc = "shift" /\ wsm[v].uuid = u
    /\ inbox[WaiterProc(v)] = Value(lastVersion[u])
    /\ WaiterProc(w) \in Range(WaitingOn(u))

\* C7: the versions a waiter takes from an account's queue are strictly
\* increasing (updates carry strictly increasing versions per account).
C7_VersionsIncrease ==
  \A w \in Waiters :
    \A k \in 1..(Len(wsm[w].taken) - 1) : wsm[w].taken[k] < wsm[w].taken[k + 1]

\* one waiter has taken two versions while another waiter waits on the same
\* queue, and one waiter has taken a version that was pushed before it came
C7_Witness ==
  \E v, w \in Waiters :
    /\ v # w
    /\ wsm[v].uuid = wsm[w].uuid
    /\ Len(wsm[v].taken) = 2
    /\ WaiterProc(w) \in Range(WaitingOn(wsm[w].uuid))

(***************************************************************************)
(* SpecQueue: the provisionQueue made by the constructor, used by callers  *)
(* that push, pushAndWait and shift in any order.  Every call takes the    *)
(* next number of nextOp: a shift as its arrival ticket, a push as its     *)
(* value.                                                                  *)
(***************************************************************************)
InitQueue ==
  /\ \E given \in {NoConfig, WithTimeout(CustomTimeout)} : config = constructor(given)
  /\ queue = (ProvisionQ :> createQueue(config))
  /\ inbox = [p \in AllProcs |-> None]
  /\ caller = [i \in Callers |-> [pc |-> "idle", op |-> 0]]
  /\ nextOp = 0
  /\ served = <<>>
  /\ delivered = <<>>
  /\ pushed = {}
  /\ expired = {}
  /\ InitServerState
  /\ InitSchemaState
  /\ InitMessageState

\* callers whose shift is settled with a value by the step from ib to ib2
Receivers(ib, ib2) ==
  {i \in Callers : ib2[CallerProc(i)].st = "value" /\ ib[CallerProc(i)] # ib2[CallerProc(i)]}

SetToSeq(S) ==
  CHOOSE s \in [1..Cardinality(S) -> S] : \A x \in S : \E k \in 1..Cardinality(S) : s[k] = x

\* the tickets served and the values delivered by a queue operation
Record(r, op, pc) ==
  LET cl == [caller EXCEPT ![op.i] = [pc |-> pc, op |-> nextOp + 1]]
      to == SetToSeq(Receivers(inbox, r.inbox))
  IN /\ queue' = r.queue
     /\ inbox' = r.inbox
     /\ caller' = cl
     /\ nextOp' = nextOp + 1
     /\ served' = served \o [k \in 1..Len(to) |-> cl[to[k]].op]
     /\ delivered' = delivered \o [k \in 1..Len(to) |-> r.inbox[CallerProc(to[k])].v]

\* caller i is free to make the next call; the callers are interchangeable, so
\* they make their first calls in the order of their names
CanCall(i) ==
  /\ caller[i].pc = "idle" /\ nextOp < MaxOps
  /\ IF i = 1 THEN TRUE ELSE caller[i - 1].op # 0

CallPush(i) ==
  /\ CanCall(i)
  /\ Record(QPush(queue, inbox, ProvisionQ, nextOp + 1, NoProc), [i |-> i], "idle")
  /\ pushed' = pushed \cup {nextOp + 1}
  /\ UNCHANGED <<queueFrame, config, expired>>

CallPushAndWait(i) ==
  /\ CanCall(i)
  /\ Record(QPush(queue, inbox, ProvisionQ, nextOp + 1, CallerProc(i)), [i |-> i],
            "pushAndWait")
  /\ pushed' = pushed \cup {nextOp + 1}
  /\ UNCHANGED <<queueFrame, config, expired>>

CallShift(i) ==
  /\ CanCall(i)
  /\ Record(QShift(queue, inbox, ProvisionQ, CallerProc(i)), [i |-> i], "shift")
  /\ UNCHANGED <<queueFrame, config, pushed, expired>>

ExpireShift(i) ==
  /\ caller[i].pc = "shift" /\ inbox[CallerProc(i)] = Pending
  /\ HasTimeout(ProvisionQ)
  /\ LET r == QExpireShift(queue, inbox, ProvisionQ, CallerProc(i))
     IN queue' = r.queue /\ inbox' = r.inbox
  /\ expired' = expired \cup {caller[i].op}
  /\ UNCHANGED <<queueFrame, config, caller, nextOp, served, delivered, pushed>>

ExpirePush(i) ==
  /\ caller[i].pc = "pushAndWait" /\ inbox[CallerProc(i)] = Pending
  /\ HasTimeout(ProvisionQ)
  /\ LET r == QExpirePush(queue, inbox, ProvisionQ, CallerProc(i))
     IN queue' = r.queue /\ inbox' = r.inbox
  /\ expired' = expired \cup {caller[i].op}
  /\ UNCHANGED <<queueFrame, config, caller, nextOp, served, delivered, pushed>>

\* the caller's await settles: it goes on with the value, the ack or QueueTimeout
Resume(i) ==
  /\ caller[i].pc \in {"shift", "pushAndWait"}
  /\ inbox[CallerProc(i)].st \in {"value", "ack", "timeout"}
  /\ caller' = [caller EXCEPT ![i].pc = "idle"]
  /\ inbox' = [inbox EXCEPT ![CallerProc(i)] = None]
  /\ UNCHANGED <<queueFrame, config, queue, nextOp, served, delivered, pushed, expired>>

NextQueue ==
  \/ \E i \in Callers : CallPush(i)
  \/ \E i \in Callers : CallPushAndWait(i)
  \/ \E i \in Callers : CallShift(i)
  \/ \E i \in Callers : ExpireShift(i)
  \/ \E i \in Callers : ExpirePush(i)
  \/ \E i \in Callers : Resume(i)

SpecQueue == InitQueue /\ [][NextQueue]_vars

(***************************************************************************)
(* Claims about the queue (SpecQueue)                                      *)
(***************************************************************************)
TestQ == queue[ProvisionQ]

Buffered == {TestQ.entries[k].value : k \in 1..Len(TestQ.entries)}

NoDuplicates(s) == \A j, k \in 1..Len(s) : j # k => s[j] # s[k]

PendingIn(pc) == {CallerProc(i) : i \in {j \in Callers :
                     caller[j].pc = pc /\ inbox[CallerProc(j)] = Pending}}

\* C8: on a server queue, waiting shift callers are served in arrival order
\* (tickets are served in increasing order), every value goes to exactly one
\* shift (no value is delivered twice, every delivery serves one shift), and
\* no value is dropped or left buffered while a live waiter exists (every
\* pushed value is buffered, delivered or withdrawn by its own timeout, and a
\* buffered value never coexists with a waiting shift).
C8_ArrivalOrderExactlyOnce ==
  /\ \A k \in 1..(Len(served) - 1) : served[k] < served[k + 1]
  /\ NoDuplicates(delivered)
  /\ Len(served) = Len(delivered)
  /\ ~(TestQ.entries # <<>> /\ TestQ.resolvers # <<>>)
  /\ pushed = Range(delivered) \cup Buffered \cup (expired \cap pushed)
  /\ Range(delivered) \cap Buffered = {}

\* two shift callers waited together (both arrived before the value was
\* pushed); the one that arrived first has been served, the other still waits
C8_Witness ==
  \E j \in Callers :
    /\ CallerProc(j) \in Range(TestQ.resolvers)
    /\ Len(served) >= 1
    /\ served[1] < caller[j].op
    /\ caller[j].op < delivered[1]

\* C9: every queue made by createQueue carries config.timeout (60000 unless
\* configured), so every pending shift and pushAndWait can expire; an expired
\* call observes QueueTimeout and its entry is withdrawn: only live callers
\* are in the queue, an expired pushAndWait value is never delivered and an
\* expired shift never consumes a value.
C9_TimeoutInvalidates ==
  /\ config.timeout \in {DEFAULT_API_TIMEOUT, CustomTimeout}
  /\ \A q \in DOMAIN queue : queue[q].timeout = config.timeout
  /\ \A i \in Callers :
       /\ (caller[i].pc = "shift" /\ inbox[CallerProc(i)] = Pending)
            => ENABLED ExpireShift(i)
       /\ (caller[i].pc = "pushAndWait" /\ inbox[CallerProc(i)] = Pending)
            => ENABLED ExpirePush(i)
       /\ (caller[i].pc # "idle" /\ caller[i].op \in expired)
            => inbox[CallerProc(i)] = QueueTimeout
  /\ Range(TestQ.resolvers) = PendingIn("shift")
  /\ {TestQ.entries[k].pusher : k \in 1..Len(TestQ.entries)} \ {NoProc}
       = PendingIn("pushAndWait")
  /\ Range(served) \cap expired = {}
  /\ Range(delivered) \cap expired = {}

\* a pushAndWait and a shift have both expired, and a later value was
\* delivered to a later shift
C9_Witness ==
  /\ expired \cap pushed # {}
  /\ expired \ pushed # {}
  /\ Len(delivered) >= 1
  /\ \A e \in expired : e < delivered[1] /\ e < served[1]

(***************************************************************************)
(* Linking a secondary device.  Link attempt a is the call                 *)
(* getProvisioningResponse(uuid a); its responseQueue and resultQueue are  *)
(* ResponseQ(a) and ResultQ(a), and the two maps hold a for its            *)
(* resultQueue.  A PendingProvisionResponse is [uuid, pubKey, primary]:    *)
(* the uuid named in the provision URL, whether the URL has one pub_key,   *)
(* and the account of the primary device.                                  *)
(***************************************************************************)
Stages == <<"advertised", "code-issued", "device-registered", "keys-uploaded">>

Responses == [uuid : Attempts, pubKey : BOOLEAN, primary : Accounts]

\* lines 414 and 443: `${device.uuid}.${device.registrationId}`
Key(uuid, registrationId) == <<uuid, registrationId>>

\* Map.delete
Without(f, k) == IF DOMAIN f \ {k} = {} THEN <<>> ELSE [x \in DOMAIN f \ {k} |-> f[x]]

\* line 435: this.provisionResultQueueByCode.delete(provisioningCode)
DeleteCode_keep(byCode, code) == byCode

DeleteCode(byCode, code) == Without(byCode, code)

\* line 421: this.provisionResultQueueByKey.delete(key)
DeleteKey_keep(byKey, key) == byKey

DeleteKey(byKey, key) == Without(byKey, key)

\* base server getProvisioningCode(uuid, number): a code not issued before,
\* remembered with the uuid and the number it was issued for
getProvisioningCode(codes) == Len(codes) + 1

\* base server provisionDevice: rejects a code it did not issue for the number
BaseAccepts(number, code) ==
  /\ code \in 1..Len(provisioningCodes)
  /\ provisioningCodes[code].number = number

\* the queue in which p awaits the acknowledgement of its pushAndWait()
PushQueueOf(p) == CHOOSE q \in DOMAIN queue : WaitsInPush(q, p)

\* an await on a queue has settled and its result is consumed
Consume(ib, p) == [ib EXCEPT ![p] = None]

\* lines 319-327: both queues are made and the PendingProvision is pushed
GetProvisioningResponse(a) ==
  /\ gpr[a] = "idle"
  /\ IF a = 1 THEN TRUE ELSE gpr[a - 1] # "idle"   \* calls are named in start order
  /\ LET qs == (ResponseQ(a) :> createQueue(config))
                 @@ (ResultQ(a) :> createQueue(config)) @@ queue
         r == QPush(qs, inbox, ProvisionQ, a, GprProc(a))
     IN queue' = r.queue /\ inbox' = r.inbox
  /\ gpr' = [gpr EXCEPT ![a] = "push"]
  /\ hist' = [hist EXCEPT ![a] = Append(@, Stages[1])]
  /\ UNCHANGED <<linkFrame, baseVars, mapVars, provisioningCodes, keysUploaded,
                 secondaryDevices, harness, pd, udk, csd>>

\* line 333: the harness took the PendingProvision; await responseQueue.shift()
GetProvisioningResponseShift(a) ==
  /\ gpr[a] = "push" /\ inbox[GprProc(a)] = Ack
  /\ LET r == QShift(queue, inbox, ResponseQ(a), GprProc(a))
     IN queue' = r.queue /\ inbox' = r.inbox
  /\ gpr' = [gpr EXCEPT ![a] = "shift"]
  /\ UNCHANGED <<linkFrame, baseVars, mapVars, provisioningCodes, keysUploaded,
                 secondaryDevices, harness, pd, udk, csd, hist>>

\* lines 335-340: the provision URL names the uuid asked for ('UUID mismatch'
\* otherwise) and has one pub_key ('Expected `pub_key` in provision URL')
ValidResponse_any(response, uuid) == TRUE

ValidResponse(response, uuid) == response.uuid = uuid /\ response.pubKey

\* lines 335-371: the response is checked, a code is issued and bound to the
\* resultQueue.  No other handler can name the code between its issue (346)
\* and line 349, so the two are one step.
GetProvisioningResponseBind(a) ==
  /\ gpr[a] = "shift" /\ inbox[GprProc(a)].st = "value"
  /\ inbox' = Consume(inbox, GprProc(a))
  /\ LET response == inbox[GprProc(a)].v
         code == getProvisioningCode(provisioningCodes)
     IN IF ValidResponse(response, a)
        THEN /\ provisioningCodes' =
                  Append(provisioningCodes, [uuid |-> a, number |-> response.primary])
             /\ provisionResultQueueByCode' = (code :> a) @@ provisionResultQueueByCode
             /\ hist' = [hist EXCEPT ![a] = Append(@, Stages[2])]
             /\ gpr' = [gpr EXCEPT ![a] = "done"]
        ELSE /\ gpr' = [gpr EXCEPT ![a] = "failed"]
             /\ UNCHANGED <<provisioningCodes, provisionResultQueueByCode, hist>>
  /\ UNCHANGED <<linkFrame, baseVars, queue, provisionResultQueueByKey, keysUploaded,
                 secondaryDevices, harness, pd, udk, csd>>

\* the timeout of the pushAndWait (322) or of the shift (333) fires: the
\* call throws QueueTimeout
GetProvisioningResponseExpire(a) ==
  /\ gpr[a] \in {"push", "shift"} /\ inbox[GprProc(a)] = Pending
  /\ LET r == IF gpr[a] = "push"
              THEN QExpirePush(queue, inbox, ProvisionQ, GprProc(a))
              ELSE QExpireShift(queue, inbox, ResponseQ(a), GprProc(a))
     IN /\ HasTimeout(IF gpr[a] = "push" THEN ProvisionQ ELSE ResponseQ(a))
        /\ queue' = r.queue /\ inbox' = Consume(r.inbox, GprProc(a))
  /\ gpr' = [gpr EXCEPT ![a] = "timeout"]
  /\ UNCHANGED <<linkFrame, baseVars, mapVars, provisioningCodes, keysUploaded,
                 secondaryDevices, harness, pd, udk, csd, hist>>

\* lines 213-215: a harness task calls waitForProvision()
WaitForProvision(h) ==
  /\ harness[h].pc = "idle"
  /\ IF h = 1 THEN TRUE ELSE harness[h - 1].pc # "idle"
  /\ LET r == QShift(queue, inbox, ProvisionQ, HarnessProc(h))
     IN queue' = r.queue /\ inbox' = r.inbox
  /\ harness' = [harness EXCEPT ![h].pc = "wait"]
  /\ UNCHANGED <<linkFrame, baseVars, mapVars, provisioningCodes, keysUploaded,
                 secondaryDevices, gpr, pd, udk, csd, hist>>

\* waitForProvision() returned a PendingProvision
WaitForProvisionDone(h) ==
  /\ harness[h].pc = "wait" /\ inbox[HarnessProc(h)].st = "value"
  /\ harness' = [harness EXCEPT ![h].pc = "have", ![h].pending = inbox[HarnessProc(h)].v]
  /\ inbox' = Consume(inbox, HarnessProc(h))
  /\ UNCHANGED <<linkFrame, baseVars, queue, mapVars, provisioningCodes, keysUploaded,
                 secondaryDevices, gpr, pd, udk, csd, hist>>

\* line 324: the harness calls complete(response) of its PendingProvision
Complete(h, response) ==
  /\ harness[h].pc = "have"
  /\ LET r == QPush(queue, inbox, ResponseQ(harness[h].pending), response, HarnessProc(h))
     IN queue' = r.queue /\ inbox' = r.inbox
  /\ harness' = [harness EXCEPT ![h].pc = "respond"]
  /\ UNCHANGED <<linkFrame, baseVars, mapVars, provisioningCodes, keysUploaded,
                 secondaryDevices, gpr, pd, udk, csd, hist>>

\* line 325: the response was taken; await resultQueue.shift()
CompleteShift(h) ==
  /\ harness[h].pc = "respond" /\ inbox[HarnessProc(h)] = Ack
  /\ LET r == QShift(queue, inbox, ResultQ(harness[h].pending), HarnessProc(h))
     IN queue' = r.queue /\ inbox' = r.inbox
  /\ harness' = [harness EXCEPT ![h].pc = "result"]
  /\ UNCHANGED <<linkFrame, baseVars, mapVars, provisioningCodes, keysUploaded,
                 secondaryDevices, gpr, pd, udk, csd, hist>>

\* complete() resolves with the device taken from the resultQueue
CompleteResolve(h) ==
  /\ harness[h].pc = "result" /\ inbox[HarnessProc(h)].st = "value"
  /\ harness' = [harness EXCEPT ![h].pc = "resolved", ![h].result = inbox[HarnessProc(h)].v]
  /\ inbox' = Consume(inbox, HarnessProc(h))
  /\ UNCHANGED <<linkFrame, baseVars, queue, mapVars, provisioningCodes, keysUploaded,
                 secondaryDevices, gpr, pd, udk, csd, hist>>

\* the timeout of the harness task's pending wait fires: the task fails
HarnessExpire(h) ==
  /\ harness[h].pc \in {"wait", "respond", "result"} /\ inbox[HarnessProc(h)] = Pending
  /\ LET q == IF harness[h].pc = "wait" THEN ProvisionQ
              ELSE IF harness[h].pc = "respond" THEN ResponseQ(harness[h].pending)
              ELSE ResultQ(harness[h].pending)
         r == IF harness[h].pc = "respond"
              THEN QExpirePush(queue, inbox, q, HarnessProc(h))
              ELSE QExpireShift(queue, inbox, q, HarnessProc(h))
     IN /\ HasTimeout(q)
        /\ queue' = r.queue /\ inbox' = Consume(r.inbox, HarnessProc(h))
  /\ harness' = [harness EXCEPT ![h].pc = "timeout"]
  /\ UNCHANGED <<linkFrame, baseVars, mapVars, provisioningCodes, keysUploaded,
                 secondaryDevices, gpr, pd, udk, csd, hist>>

\* lines 431-437: provisionDevice(number, password, code, registrationId) finds
\* the resultQueue of the code, unbinds the code and awaits super.provisionDevice
ProvisionDevice(number, code, registrationId) ==
  /\ code \in DOMAIN provisionResultQueueByCode
  /\ provisionResultQueueByCode' = DeleteCode(provisionResultQueueByCode, code)
  /\ pd' = pd \cup {[number |-> number, code |-> code,
                     registrationId |-> registrationId,
                     queue |-> provisionResultQueueByCode[code]]}
  /\ UNCHANGED <<linkFrame, baseVars, queueVars, provisionResultQueueByKey,
                 provisioningCodes, keysUploaded, secondaryDevices, gpr, harness,
                 udk, csd, hist>>

\* lines 431-434: provisionDevice with a code that has no resultQueue; the
\* assert throws 'Missing provision result queue' and nothing is changed
ProvisionDeviceMissing(code) ==
  /\ ~(code \in DOMAIN provisionResultQueueByCode)
  /\ UNCHANGED vars

\* lines 437-450: super.provisionDevice settles.  If it registered a device,
\* the resultQueue goes under the device's key and the primary gets the device.
ProvisionDeviceDone(call) ==
  /\ call \in pd /\ Len(devices) < MaxDevices
  /\ pd' = pd \ {call}
  /\ IF BaseAccepts(call.number, call.code)
     THEN LET uuid == call.number
              device == Len(devices) + 1
          IN /\ devices' = registerDevice(devices, uuid, call.number,
                                          call.registrationId, call.code)
             /\ provisionResultQueueByKey' =
                  (Key(uuid, call.registrationId) :> call.queue) @@ provisionResultQueueByKey
             /\ secondaryDevices' =
                  IF UuidKey(uuid) \in DOMAIN primaryDevices
                  THEN [secondaryDevices EXCEPT ![uuid] = @ \cup {device}]
                  ELSE secondaryDevices
             /\ hist' = [hist EXCEPT ![call.queue] = Append(@, Stages[3])]
     ELSE UNCHANGED <<devices, provisionResultQueueByKey, secondaryDevices, hist>>
  /\ UNCHANGED <<linkFrame, queueVars, provisionResultQueueByCode, provisioningCodes,
                 keysUploaded, gpr, harness, udk, csd>>

\* lines 408-423, run for device by the caller p: the base server stores the
\* keys, and the device goes to the resultQueue under its key, if there is one;
\* p finds Ack in its inbox when the call has returned
updateDeviceKeys_noPush(device, p) ==
  /\ keysUploaded' = keysUploaded \cup {device}
  /\ inbox' = [inbox EXCEPT ![p] = Ack]
  /\ UNCHANGED <<provisionResultQueueByKey, queue, hist>>

updateDeviceKeys(device, p) ==
  /\ keysUploaded' = keysUploaded \cup {device}
  /\ LET key == Key(devices[device].uuid, devices[device].registrationId)
     IN IF key \in DOMAIN provisionResultQueueByKey
        THEN LET a == provisionResultQueueByKey[key]
                 r == QPush(queue, inbox, ResultQ(a), device, p)
             IN /\ provisionResultQueueByKey' = DeleteKey(provisionResultQueueByKey, key)
                /\ queue' = r.queue /\ inbox' = r.inbox
                /\ hist' = [hist EXCEPT ![a] = Append(@, Stages[4])]
        ELSE /\ inbox' = [inbox EXCEPT ![p] = Ack]
             /\ UNCHANGED <<provisionResultQueueByKey, queue, hist>>

\* a linked device uploads its keys: the base server calls updateDeviceKeys
UpdateDeviceKeys(device) ==
  /\ device \in 1..Len(devices) /\ devices[device].code # 0
  /\ udk[device] # "keys"
  /\ updateDeviceKeys(device, UdkProc(device))
  /\ udk' = [udk EXCEPT ![device] = "keys"]
  /\ UNCHANGED <<linkFrame, baseVars, provisionResultQueueByCode, provisioningCodes,
                 secondaryDevices, gpr, harness, pd, csd>>

UpdateDeviceKeysDone(device) ==
  /\ udk[device] = "keys" /\ inbox[UdkProc(device)] = Ack
  /\ udk' = [udk EXCEPT ![device] = "done"]
  /\ inbox' = Consume(inbox, UdkProc(device))
  /\ UNCHANGED <<linkFrame, baseVars, queue, mapVars, provisioningCodes, keysUploaded,
                 secondaryDevices, gpr, harness, pd, csd, hist>>

\* the timeout of the pushAndWait (422) fires: updateDeviceKeys throws
UpdateDeviceKeysExpire(device) ==
  /\ udk[device] = "keys" /\ inbox[UdkProc(device)] = Pending
  /\ HasTimeout(PushQueueOf(UdkProc(device)))
  /\ LET r == QExpirePush(queue, inbox, PushQueueOf(UdkProc(device)), UdkProc(device))
     IN queue' = r.queue /\ inbox' = Consume(r.inbox, UdkProc(device))
  /\ udk' = [udk EXCEPT ![device] = "timeout"]
  /\ UNCHANGED <<linkFrame, baseVars, mapVars, provisioningCodes, keysUploaded,
                 secondaryDevices, gpr, harness, pd, csd, hist>>

\* lines 296-303: createSecondaryDevice(primary of account u) draws a
\* registration id and registers the device
CreateSecondaryDevice(k, u, registrationId) ==
  /\ csd[k].pc = "idle" /\ Len(devices) < MaxDevices
  /\ IF k = 1 THEN TRUE ELSE csd[k - 1].pc # "idle"
  /\ devices' = registerDevice(devices, u, u, registrationId, 0)
  /\ csd' = [csd EXCEPT ![k] = [pc |-> "registered", primary |-> u,
                                device |-> Len(devices) + 1]]
  /\ UNCHANGED <<linkFrame, queueVars, mapVars, provisioningCodes, keysUploaded,
                 secondaryDevices, gpr, harness, pd, udk, hist>>

\* line 305: await this.updateDeviceKeys(device, keys)
CreateSecondaryKeys_addFirst(k) ==
  /\ csd[k].pc = "registered"
  /\ updateDeviceKeys(csd[k].device, CsdProc(k))
  /\ secondaryDevices' = [secondaryDevices EXCEPT ![csd[k].primary] = @ \cup {csd[k].device}]
  /\ csd' = [csd EXCEPT ![k].pc = "keys"]
  /\ UNCHANGED <<linkFrame, baseVars, provisionResultQueueByCode, provisioningCodes,
                 gpr, harness, pd, udk>>

CreateSecondaryKeys(k) ==
  /\ csd[k].pc = "registered"
  /\ updateDeviceKeys(csd[k].device, CsdProc(k))
  /\ csd' = [csd EXCEPT ![k].pc = "keys"]
  /\ UNCHANGED <<linkFrame, baseVars, provisionResultQueueByCode, provisioningCodes,
                 secondaryDevices, gpr, harness, pd, udk>>

\* lines 307-309: primary.addSecondaryDevice(device); return device
CreateSecondaryAdd(k) ==
  /\ csd[k].pc = "keys" /\ inbox[CsdProc(k)] = Ack
  /\ secondaryDevices' = [secondaryDevices EXCEPT ![csd[k].primary] = @ \cup {csd[k].device}]
  /\ csd' = [csd EXCEPT ![k].pc = "done"]
  /\ inbox' = Consume(inbox, CsdProc(k))
  /\ UNCHANGED <<linkFrame, baseVars, queue, mapVars, provisioningCodes, keysUploaded,
                 gpr, harness, pd, udk, hist>>

\* the timeout of the pushAndWait (422) fires: createSecondaryDevice throws
CreateSecondaryExpire(k) ==
  /\ csd[k].pc = "keys" /\ inbox[CsdProc(k)] = Pending
  /\ HasTimeout(PushQueueOf(CsdProc(k)))
  /\ LET r == QExpirePush(queue, inbox, PushQueueOf(CsdProc(k)), CsdProc(k))
     IN queue' = r.queue /\ inbox' = Consume(r.inbox, CsdProc(k))
  /\ csd' = [csd EXCEPT ![k].pc = "timeout"]
  /\ UNCHANGED <<linkFrame, baseVars, mapVars, provisioningCodes, keysUploaded,
                 secondaryDevices, gpr, harness, pd, udk, hist>>

\* the codes a client may send: those issued and one that never is
Codes == 1..(MaxAttempts + 1)

NextLink ==
  \/ \E a \in Attempts : GetProvisioningResponse(a)
  \/ \E a \in Attempts : GetProvisioningResponseShift(a)
  \/ \E a \in Attempts : GetProvisioningResponseBind(a)
  \/ \E a \in Attempts : GetProvisioningResponseExpire(a)
  \/ \E h \in Harnesses : WaitForProvision(h)
  \/ \E h \in Harnesses : WaitForProvisionDone(h)
  \/ \E h \in Harnesses, response \in Responses : Complete(h, response)
  \/ \E h \in Harnesses : CompleteShift(h)
  \/ \E h \in Harnesses : CompleteResolve(h)
  \/ \E h \in Harnesses : HarnessExpire(h)
  \/ \E number \in Numbers, code \in Codes, registrationId \in RegistrationIds :
       ProvisionDevice(number, code, registrationId)
  \/ \E code \in Codes : ProvisionDeviceMissing(code)
  \/ \E call \in pd : ProvisionDeviceDone(call)
  \/ \E device \in DeviceIds : UpdateDeviceKeys(device)
  \/ \E device \in DeviceIds : UpdateDeviceKeysDone(device)
  \/ \E device \in DeviceIds : UpdateDeviceKeysExpire(device)
  \/ \E k \in SecondaryCalls, u \in Accounts, registrationId \in RegistrationIds :
       CreateSecondaryDevice(k, u, registrationId)
  \/ \E k \in SecondaryCalls : CreateSecondaryKeys(k)
  \/ \E k \in SecondaryCalls : CreateSecondaryAdd(k)
  \/ \E k \in SecondaryCalls : CreateSecondaryExpire(k)

SpecLink == InitEstablished /\ [][NextLink]_vars

(***************************************************************************)
(* Claims on the link of a secondary device                                *)
(***************************************************************************)
ValuesOf(f) == {f[k] : k \in DOMAIN f}

Registered == 1..Len(devices)

\* the devices registered by provisionDevice with the code
DevicesWithCode(code) == {d \in Registered : devices[d].code = code}

\* the harness tasks that have called complete() of link attempt a
Completing(a) ==
  {h \in Harnesses : harness[h].pending = a
                       /\ harness[h].pc \in {"respond", "result", "resolved", "timeout"}}

\* C1: when complete() has resolved with a device, the keys of that device
\* are uploaded and the primary device of its account has added the device.
C1_ResolvedAfterKeysAndAdd ==
  \A h \in Harnesses :
    harness[h].pc = "resolved" =>
      /\ harness[h].result \in keysUploaded
      /\ harness[h].result \in secondaryDevices[devices[harness[h].result].uuid]

\* C2: a link attempt enters the states advertised, code-issued,
\* device-registered, keys-uploaded in this order, each at most once: its code
\* is bound only after the harness called complete(), its resultQueue is under
\* a key only after provisionDevice unbound the code and registered a device,
\* and its resultQueue holds only devices whose keys are uploaded.
C2_StatesInOrder ==
  \A a \in Attempts :
    /\ Len(hist[a]) <= Len(Stages)
    /\ \A i \in 1..Len(hist[a]) : hist[a][i] = Stages[i]
    /\ Len(hist[a]) >= 2 => Completing(a) # {}
    /\ a \in ValuesOf(provisionResultQueueByCode) => Len(hist[a]) = 2
    /\ (\E call \in pd : call.queue = a) => Len(hist[a]) = 2
    /\ a \in ValuesOf(provisionResultQueueByKey) =>
         /\ Len(hist[a]) = 3
         /\ ~(a \in ValuesOf(provisionResultQueueByCode))
         /\ \E d \in Registered :
              devices[d].code # 0 /\ provisioningCodes[devices[d].code].uuid = a
    /\ ResultQ(a) \in DOMAIN queue =>
         \A i \in 1..Len(queue[ResultQ(a)].entries) :
           /\ Len(hist[a]) = 4
           /\ queue[ResultQ(a)].entries[i].value \in keysUploaded
    /\ (\E h \in Harnesses : harness[h].pending = a /\ harness[h].pc = "resolved")
         => Len(hist[a]) = 4

\* a link attempt went through the four states and its complete() resolved
C2_Witness ==
  \E a \in Attempts, h \in Harnesses :
    /\ hist[a] = Stages
    /\ harness[h].pending = a /\ harness[h].pc = "resolved"
    /\ devices[harness[h].result].code # 0

\* C3: a bound code is bound to the resultQueue of the one attempt it was
\* issued for, and a code registers at most one device: once a provisionDevice
\* call has taken it, it is unbound and no other call registers with it.
C3_CodeOneAttemptOnce ==
  /\ \A c \in DOMAIN provisionResultQueueByCode :
       /\ c \in 1..Len(provisioningCodes)
       /\ provisionResultQueueByCode[c] = provisioningCodes[c].uuid
       /\ DevicesWithCode(c) = {}
       /\ \A call \in pd : call.code # c
  /\ \A c, e \in 1..Len(provisioningCodes) :
       provisioningCodes[c].uuid = provisioningCodes[e].uuid => c = e
  /\ \A c \in Codes : Cardinality(DevicesWithCode(c)) <= 1
  /\ \A call, other \in pd : call.code = other.code => call = other
  /\ \A call \in pd : DevicesWithCode(call.code) = {}

\* a device is registered with a code, that code is unbound and the code of
\* another attempt is still bound
C3_Witness ==
  \E c \in DOMAIN provisionResultQueueByCode, e \in Codes :
    /\ c # e
    /\ DevicesWithCode(e) # {}
    /\ ~(e \in DOMAIN provisionResultQueueByCode)

\* C4: an issued code is unbound only by a provisionDevice call that registers
\* a device: it is bound, or a call with it awaits the base server, or a
\* device is registered with it.
C4_CodeBoundUnlessRegistered ==
  \A c \in 1..Len(provisioningCodes) :
    \/ c \in DOMAIN provisionResultQueueByCode
    \/ \E call \in pd : call.code = c
    \/ DevicesWithCode(c) # {}

(***************************************************************************)
(* The harness-blocking waits under fair scheduling.  Linking and the      *)
(* storage manifest notifications have no variable in common (their queues *)
(* are different PromiseQueues), so a wait of one is not affected by the   *)
(* steps of the other: a behaviour of SpecWaits exercises one of the two,  *)
(* with MaxWaitAttempts link attempts and harness tasks.                    *)
(* The event loop runs the continuation of every settled await and fires   *)
(* every armed timer: these steps are weakly fair.  The calls made by the  *)
(* harness and by clients are not.                                         *)
(***************************************************************************)
LinkIdle ==
  /\ \A a \in Attempts : gpr[a] = "idle"
  /\ \A h \in Harnesses : harness[h].pc = "idle"
  /\ \A k \in SecondaryCalls : csd[k].pc = "idle"

ManifestIdle ==
  /\ manifestQueueByUuid = <<>>
  /\ \A w \in Waiters : wsm[w].pc = "idle"

\* the link attempts and the harness tasks of SpecWaits
WaitAttempts == 1..MaxWaitAttempts

NextWaits ==
  \/ \E a \in WaitAttempts : ManifestIdle /\ GetProvisioningResponse(a)
  \/ \E a \in WaitAttempts : ManifestIdle /\ GetProvisioningResponseShift(a)
  \/ \E a \in WaitAttempts : ManifestIdle /\ GetProvisioningResponseBind(a)
  \/ \E a \in WaitAttempts : ManifestIdle /\ GetProvisioningResponseExpire(a)
  \/ \E h \in WaitAttempts : ManifestIdle /\ WaitForProvision(h)
  \/ \E h \in WaitAttempts : ManifestIdle /\ WaitForProvisionDone(h)
  \/ \E h \in WaitAttempts, response \in Responses :
       ManifestIdle /\ Complete(h, response)
  \/ \E h \in WaitAttempts : ManifestIdle /\ CompleteShift(h)
  \/ \E h \in WaitAttempts : ManifestIdle /\ CompleteResolve(h)
  \/ \E h \in WaitAttempts : ManifestIdle /\ HarnessExpire(h)
  \/ \E number \in Numbers, code \in Codes, registrationId \in RegistrationIds :
       ManifestIdle /\ ProvisionDevice(number, code, registrationId)
  \/ \E call \in pd : ManifestIdle /\ ProvisionDeviceDone(call)
  \/ \E device \in DeviceIds : ManifestIdle /\ UpdateDeviceKeys(device)
  \/ \E device \in DeviceIds : ManifestIdle /\ UpdateDeviceKeysDone(device)
  \/ \E device \in DeviceIds : ManifestIdle /\ UpdateDeviceKeysExpire(device)
  \/ \E k \in SecondaryCalls, u \in Accounts, registrationId \in RegistrationIds :
       ManifestIdle /\ CreateSecondaryDevice(k, u, registrationId)
  \/ \E k \in SecondaryCalls : ManifestIdle /\ CreateSecondaryKeys(k)
  \/ \E k \in SecondaryCalls : ManifestIdle /\ CreateSecondaryAdd(k)
  \/ \E k \in SecondaryCalls : ManifestIdle /\ CreateSecondaryExpire(k)
  \/ \E u \in Accounts, v \in Versions : LinkIdle /\ OnStorageManifestUpdate(u, v)
  \/ \E w \in Waiters, u \in Accounts, after \in AfterVersions :
       LinkIdle /\ WaitForStorageManifest(w, u, after)
  \/ \E w \in Waiters : LinkIdle /\ WaitForStorageManifestNext(w)
  \/ \E w \in Waiters : LinkIdle /\ WaitForStorageManifestExpire(w)

FairWaits ==
  /\ \A h \in WaitAttempts :
       /\ WF_vars(ManifestIdle /\ WaitForProvisionDone(h))
       /\ WF_vars(ManifestIdle /\ CompleteShift(h))
       /\ WF_vars(ManifestIdle /\ CompleteResolve(h))
       /\ WF_vars(ManifestIdle /\ HarnessExpire(h))
  /\ \A w \in Waiters :
       /\ WF_vars(LinkIdle /\ WaitForStorageManifestNext(w))
       /\ WF_vars(LinkIdle /\ WaitForStorageManifestExpire(w))

SpecWaits == InitEstablished /\ [][NextWaits]_vars /\ FairWaits

\* C10: a waitForProvision() call returns a PendingProvision or fails with a
\* timeout, a complete() call resolves with a device or fails with a timeout,
\* and a waitForStorageManifest() call returns or fails with a timeout.
C10_WaitsTerminate ==
  /\ \A h \in Harnesses :
       /\ (harness[h].pc = "wait") ~> (harness[h].pc \in {"have", "timeout"})
       /\ (harness[h].pc \in {"respond", "result"})
            ~> (harness[h].pc \in {"resolved", "timeout"})
  /\ \A w \in Waiters : (wsm[w].pc = "shift") ~> (wsm[w].pc \in {"done", "failed"})

\* a complete() call has failed with a timeout: the device of its link attempt
\* is registered and the keys of the device were never uploaded
C10_Witness ==
  \E h \in WaitAttempts :
    /\ harness[h].pc = "timeout" /\ harness[h].pending # 0
    /\ Len(hist[harness[h].pending]) = 3

(***************************************************************************)
(* Timeouts and order of the link (SpecLink)                               *)
(***************************************************************************)
\* a wait of link attempt a has timed out: a wait of its
\* getProvisioningResponse call, or its complete()
TimedOut(a) ==
  \/ gpr[a] = "timeout"
  \/ \E h \in Harnesses : harness[h].pending = a /\ harness[h].pc = "timeout"

\* C11: once a wait of a link attempt has timed out, no step leaves the
\* resultQueue of the attempt in provisionResultQueueByCode or in
\* provisionResultQueueByKey, and no step moves the attempt to a further state.
C11_TimeoutCollapsesLink ==
  [][\A a \in Attempts :
       TimedOut(a) =>
         /\ ~(a \in ValuesOf(provisionResultQueueByCode'))
         /\ ~(a \in ValuesOf(provisionResultQueueByKey'))
         /\ hist'[a] = hist[a]
    ]_vars

\* the attempt the waitForProvision() call of harness task h has returned, or
\* 0: the value that settled its shift, taken up by the task or not yet
Provisioned(h) ==
  IF harness[h].pc = "wait" /\ inbox[HarnessProc(h)].st = "value"
  THEN inbox[HarnessProc(h)].v
  ELSE harness[h].pending

\* C12: link attempts are numbered in the order of their pushes onto
\* provisionQueue and harness tasks in the order of their waitForProvision()
\* calls; a later call never gets an earlier attempt than an earlier call.
C12_RequestOrder ==
  \A h, i \in Harnesses :
    (h < i /\ Provisioned(h) # 0 /\ Provisioned(i) # 0)
      => Provisioned(h) < Provisioned(i)

\* two attempts were pushed before the harness asked, and two
\* waitForProvision() calls have returned them
C12_Witness ==
  /\ harness[1].pending = 1 /\ harness[2].pending = 2
  /\ gpr[1] = "shift" /\ gpr[2] = "shift"
  /\ inbox[HarnessProc(2)] = None

\* C13: no getProvisioningResponse call and no updateDeviceKeys call made for
\* a client fails with QueueTimeout.
C13_NoTimeoutToClient ==
  /\ \A a \in Attempts : gpr[a] # "timeout"
  /\ \A d \in DeviceIds : udk[d] # "timeout"

(***************************************************************************)
(* Devices of the link (SpecLink)                                          *)
(***************************************************************************)
\* the devices registered by createSecondaryDevice or by provisionDevice
Secondaries ==
  {d \in Registered :
     devices[d].code # 0 \/ \E k \in SecondaryCalls : csd[k].device = d}

C17_OwnDeviceDelivered ==
  /\ \A h \in Harnesses :
       harness[h].pc = "resolved" =>
         /\ devices[harness[h].result].code # 0
         /\ provisioningCodes[devices[harness[h].result].code].uuid = harness[h].pending
  /\ \A a \in Attempts :
       Len(hist[a]) = 3 => a \in ValuesOf(provisionResultQueueByKey)

\* C19: a getProvisioningResponse call that gets a response whose URL names
\* another uuid, or has no single pub_key, fails and changes neither map and
\* issues no code; the attempt of a failed call stays advertised, nothing is
\* put into its resultQueue and its complete() does not resolve.
C19_InvalidResponseFails ==
  [][\A a \in Attempts :
       /\ (/\ gpr[a] = "shift" /\ gpr'[a] # "shift"
           /\ inbox[GprProc(a)].st = "value"
           /\ ~(inbox[GprProc(a)].v.uuid = a /\ inbox[GprProc(a)].v.pubKey))
            => /\ gpr'[a] = "failed"
               /\ provisionResultQueueByCode' = provisionResultQueueByCode
               /\ provisionResultQueueByKey' = provisionResultQueueByKey
               /\ provisioningCodes' = provisioningCodes
       /\ gpr'[a] = "failed" =>
            /\ hist'[a] = <<Stages[1]>>
            /\ ~(a \in ValuesOf(provisionResultQueueByCode'))
            /\ ~(a \in ValuesOf(provisionResultQueueByKey'))
            /\ queue'[ResultQ(a)].entries = <<>>
            /\ \A h \in Harnesses :
                 harness'[h].pending = a => harness'[h].pc # "resolved"
    ]_vars

\* a call failed on the response and the complete() that supplied the
\* response has timed out
C19_Witness ==
  \E a \in Attempts, h \in Harnesses :
    /\ gpr[a] = "failed"
    /\ harness[h].pending = a /\ harness[h].pc = "timeout"

(***************************************************************************)
(* createPrimaryDevice before listen (SpecServer)                          *)
(***************************************************************************)
\* C18: a createPrimaryDevice call that failed because listen() had not
\* stored the empty attachment has left nothing: its number is not in
\* knownNumbers, no device of its uuid is registered and primaryDevices has
\* neither its number nor its uuid.
C18_FailedCallLeavesNothing ==
  \A k \in PrimaryCalls :
    cpd[k].pc = "failed" =>
      /\ ~(cpd[k].number \in knownNumbers)
      /\ DevicesOf(devices, k) = {}
      /\ ~(NumberKey(cpd[k].number) \in DOMAIN primaryDevices)
      /\ ~(UuidKey(k) \in DOMAIN primaryDevices)

(***************************************************************************)
(* Validation of request bodies (src/src/data/schemas.ts).  A JSON value   *)
(* is a string or a number; the number twice/2 is held as twice, so that   *)
(* halves can be told from integers.  The fields of a body that the        *)
(* schemas below do not constrain beyond their type are left out.          *)
(***************************************************************************)
MinUsernameHashes == 1
MaxUsernameHashes == 20
RegistrationIdLimit == 2^14

JsonString == [type |-> "string", twice |-> 0]
JsonNumber(twice) == [type |-> "number", twice |-> twice]

\* z.string() and z.number()
ZString(v) == v.type = "string"
ZNumber(v) == v.type = "number"

\* lines 25-27: z.number().transform(x => x as RegistrationId)
RegistrationIdSchema(v) == ZNumber(v)

\* lines 52-58, the field destinationRegistrationId
MessageSchema(m) == RegistrationIdSchema(m.destinationRegistrationId)

\* lines 69-81, the fields registrationId and pniRegistrationId
AtomicLinkingDataSchema(d) ==
  /\ RegistrationIdSchema(d.registrationId)
  /\ RegistrationIdSchema(d.pniRegistrationId)

\* lines 94-101: z.string().transform(fromURLSafeBase64).array().min(1).max(20)
UsernameReservationSchema_noMax(r) ==
  /\ \A i \in 1..Len(r.usernameHashes) : ZString(r.usernameHashes[i])
  /\ Len(r.usernameHashes) >= MinUsernameHashes

UsernameReservationSchema(r) ==
  /\ \A i \in 1..Len(r.usernameHashes) : ZString(r.usernameHashes[i])
  /\ Len(r.usernameHashes) >= MinUsernameHashes
  /\ Len(r.usernameHashes) <= MaxUsernameHashes

\* the numbers tried as registration ids: the integers and halves within
\* IdMargin of 0 and of 2^14, and a string
JsonValues ==
  {JsonString}
  \cup {JsonNumber(t) : t \in (-2 * IdMargin)..(2 * IdMargin)}
  \cup {JsonNumber(2 * RegistrationIdLimit + t) : t \in (-2 * IdMargin)..(2 * IdMargin)}

\* the arrays tried as usernameHashes: up to MaxHashes strings, and the same
\* with a number in one place
HashArrays ==
  {[i \in 1..n |-> JsonString] : n \in 0..MaxHashes}
  \cup {[i \in 1..n |-> IF i = k THEN JsonNumber(0) ELSE JsonString] :
          n \in 1..MaxHashes, k \in 1..MaxHashes}

Requests ==
  {[schema |-> "UsernameReservation", usernameHashes |-> a] : a \in HashArrays}
  \cup {[schema |-> "Message", destinationRegistrationId |-> v] : v \in JsonValues}
  \cup {[schema |-> "AtomicLinkingData", registrationId |-> v, pniRegistrationId |-> w] :
          v \in JsonValues, w \in JsonValues}

Verdict(ok) == IF ok THEN "accepted" ELSE "rejected"

ParseUsernameReservation ==
  /\ verdict = "none" /\ request.schema = "UsernameReservation"
  /\ verdict' = Verdict(UsernameReservationSchema(request))
  /\ UNCHANGED <<schemaFrame, request>>

ParseMessage ==
  /\ verdict = "none" /\ request.schema = "Message"
  /\ verdict' = Verdict(MessageSchema(request))
  /\ UNCHANGED <<schemaFrame, request>>

ParseAtomicLinkingData ==
  /\ verdict = "none" /\ request.schema = "AtomicLinkingData"
  /\ verdict' = Verdict(AtomicLinkingDataSchema(request))
  /\ UNCHANGED <<schemaFrame, request>>

InitSchemas ==
  /\ config = constructor(NoConfig)
  /\ queue = (ProvisionQ :> createQueue(config))
  /\ inbox = [p \in AllProcs |-> None]
  /\ caller = [i \in Callers |-> [pc |-> "idle", op |-> 0]]
  /\ nextOp = 0 /\ served = <<>> /\ delivered = <<>> /\ pushed = {} /\ expired = {}
  /\ InitServerState
  /\ request \in Requests
  /\ verdict = "none"
  /\ InitMessageState

NextSchemas ==
  \/ ParseUsernameReservation
  \/ ParseMessage
  \/ ParseAtomicLinkingData

SpecSchemas == InitSchemas /\ [][NextSchemas]_vars

\* the registration ids of a validated body
RegistrationIdsOf(r) ==
  IF r.schema = "Message" THEN {r.destinationRegistrationId}
  ELSE IF r.schema = "AtomicLinkingData" THEN {r.registrationId, r.pniRegistrationId}
  ELSE {}

\* C14: a reservation whose usernameHashes are strings is accepted exactly
\* when there are between 1 and 20 of them.
C14_HashCountOneToTwenty ==
  (/\ verdict # "none" /\ request.schema = "UsernameReservation"
   /\ \A i \in 1..Len(request.usernameHashes) : request.usernameHashes[i].type = "string")
    => (verdict = "accepted" <=> Len(request.usernameHashes) \in 1..20)

\* a reservation with 21 hashes has been rejected
C14_Witness ==
  /\ verdict = "rejected" /\ request.schema = "UsernameReservation"
  /\ Len(request.usernameHashes) = 21
  /\ \A i \in 1..21 : request.usernameHashes[i].type = "string"

\* C15: an accepted message or linking body has only registration ids that
\* are integers in [1, 2^14).
C15_RegistrationIdInRange ==
  verdict = "accepted" =>
    \A v \in RegistrationIdsOf(request) :
      /\ v.type = "number"
      /\ v.twice % 2 = 0
      /\ v.twice >= 2 /\ v.twice < 2 * 16384

(***************************************************************************)
(* The rendezvous of a link without timeouts (SpecRendezvous): no timer    *)
(* fires, the harness answers every PendingProvision with a valid          *)
(* response, and the client of a link attempt sends the code issued to it  *)
(* with the number the code was issued for, then uploads the keys of its   *)
(* new device once.  The client of attempt a sends the registration id a,  *)
(* so that the devices of two attempts have different keys.                *)
(***************************************************************************)
\* the client's PUT /v1/devices/{code} with the code issued to its attempt
ProvisionIssued(code) ==
  /\ code \in DOMAIN provisionResultQueueByCode
  /\ ProvisionDevice(provisioningCodes[code].number, code,
                     provisionResultQueueByCode[code])

\* the harness answers with the uuid asked for and a pub_key
CompleteValid(h, response) ==
  /\ harness[h].pc = "have" /\ ValidResponse(response, harness[h].pending)
  /\ Complete(h, response)

\* the new device uploads its keys, once
UploadOnce(device) == udk[device] = "idle" /\ UpdateDeviceKeys(device)

NextRendezvous ==
  \/ \E a \in Attempts : GetProvisioningResponse(a)
  \/ \E a \in Attempts : GetProvisioningResponseShift(a)
  \/ \E a \in Attempts : GetProvisioningResponseBind(a)
  \/ \E h \in Harnesses : WaitForProvision(h)
  \/ \E h \in Harnesses : WaitForProvisionDone(h)
  \/ \E h \in Harnesses, response \in Responses : CompleteValid(h, response)
  \/ \E h \in Harnesses : CompleteShift(h)
  \/ \E h \in Harnesses : CompleteResolve(h)
  \/ \E code \in Codes : ProvisionIssued(code)
  \/ \E call \in pd : ProvisionDeviceDone(call)
  \/ \E device \in DeviceIds : UploadOnce(device)
  \/ \E device \in DeviceIds : UpdateDeviceKeysDone(device)

\* Every continuation that is ready runs (the event loop), and the harness
\* and the client go on to their next call; whether a client asks for a link
\* at all is left open.
FairRendezvous ==
  /\ \A a \in Attempts :
       /\ WF_vars(GetProvisioningResponseShift(a))
       /\ WF_vars(GetProvisioningResponseBind(a))
  /\ \A h \in Harnesses :
       /\ WF_vars(WaitForProvision(h))
       /\ WF_vars(WaitForProvisionDone(h))
       /\ WF_vars(\E response \in Responses : CompleteValid(h, response))
       /\ WF_vars(CompleteShift(h))
       /\ WF_vars(CompleteResolve(h))
  /\ \A code \in Codes : WF_vars(ProvisionIssued(code))
  /\ WF_vars(\E call \in pd : ProvisionDeviceDone(call))
  /\ \A device \in DeviceIds :
       /\ WF_vars(UploadOnce(device))
       /\ WF_vars(UpdateDeviceKeysDone(device))

SpecRendezvous == InitEstablished /\ [][NextRendezvous]_vars /\ FairRendezvous

\* the devices registered with a code issued to link attempt a
DevicesOfAttempt(a) ==
  {d \in Registered : devices[d].code \in 1..Len(provisioningCodes)
                        /\ provisioningCodes[devices[d].code].uuid = a}

\* getProvisioningResponse of attempt a has returned, complete() of the
\* attempt has resolved with the attempt's device, and the key upload of that
\* device has returned
Linked(a) ==
  /\ gpr[a] = "done"
  /\ \E h \in Harnesses :
       /\ harness[h].pc = "resolved" /\ harness[h].pending = a
       /\ harness[h].result \in DevicesOfAttempt(a)
       /\ udk[harness[h].result] = "done"

KeyUploadOf(d) ==
  \/ udk[d] # "keys" /\ udk'[d] = "keys"
  \/ \E k \in SecondaryCalls :
       csd[k].pc = "registered" /\ csd'[k].pc = "keys" /\ csd[k].device = d

\* the number of devices that reached the resultQueue of link attempt a
Deliveries(a) == Cardinality({i \in 1..Len(hist[a]) : hist[a][i] = Stages[4]})

\* C21: the resultQueue of a link attempt receives at most one device, and a
\* key upload for a device whose keys were uploaded before, or for a device
\* that no link registered, changes neither map and pushes into no queue.
C21_OnePushPerLink ==
  [][/\ \A a \in Attempts : Deliveries(a)' <= 1
     /\ \A d \in DeviceIds :
          (KeyUploadOf(d) /\ (d \in keysUploaded \/ devices[d].code = 0))
            => /\ provisionResultQueueByKey' = provisionResultQueueByKey
               /\ provisionResultQueueByCode' = provisionResultQueueByCode
               /\ queue' = queue]_vars

(***************************************************************************)
(* The life of a server (SpecLifecycle): the harness calls listen(),       *)
(* close() and createPrimaryDevice() in any order and number               *)
(***************************************************************************)
NextLifecycle ==
  \/ \E l \in ListenCalls : ListenStart(l)
  \/ \E l \in ListenCalls : ListenCreate(l)
  \/ \E l \in ListenCalls : ListenDone(l)
  \/ Close
  \/ \E k \in PrimaryCalls : CreatePrimaryNumber(k)
  \/ \E k \in PrimaryCalls : CreatePrimaryRegister(k)
  \/ \E k \in PrimaryCalls : CreatePrimaryContacts(k)
  \/ \E k \in PrimaryCalls : CreatePrimaryDone(k)

SpecLifecycle == InitServer /\ [][NextLifecycle]_vars

\* C22: one listener and one empty attachment at most are ever created, and a
\* listen() call that starts after another has started fails.
C22_OneListener ==
  /\ listeners <= 1
  /\ attachments <= 1
  /\ \A l \in ListenCalls : l > 1 => lsn[l] \in {"idle", "failed"}

(***************************************************************************)
(* The loop of waitForStorageManifest (SpecManifest)                       *)
(***************************************************************************)
\* the versions still buffered in account u's queue
BufferedVersions(u) ==
  IF u \in DOMAIN manifestQueueByUuid
  THEN {queue[ManifestQ(u)].entries[i].value : i \in 1..Len(queue[ManifestQ(u)].entries)}
  ELSE {}

\* C23: a waitForStorageManifest call that has returned took, last, a version
\* greater than afterVersion and before it only versions up to afterVersion;
\* without afterVersion it took one version; a call still in its loop took
\* only versions up to afterVersion; a version taken is no longer in the queue.
C23_ReturnsAfterNewerVersion ==
  \A w \in Waiters :
    LET t == wsm[w].taken
        after == wsm[w].after
    IN /\ wsm[w].pc = "done" =>
            /\ Len(t) >= 1
            /\ after.defined => t[Len(t)] > after.v
            /\ ~after.defined => Len(t) = 1
            /\ \A k \in 1..(Len(t) - 1) : after.defined /\ t[k] <= after.v
       /\ wsm[w].pc \in {"shift", "failed"} =>
            \A k \in 1..Len(t) : after.defined /\ t[k] <= after.v
       /\ \A k \in 1..Len(t) : ~(t[k] \in BufferedVersions(wsm[w].uuid))

\* a call has returned after it took and discarded a version
C23_Witness ==
  \E w \in Waiters :
    /\ wsm[w].pc = "done" /\ wsm[w].after.defined
    /\ Len(wsm[w].taken) = 2 /\ wsm[w].taken[1] <= wsm[w].after.v

(***************************************************************************)
(* Conservation of manifest notifications (SpecManifest)                   *)
(***************************************************************************)
\* the versions buffered in account u's queue, oldest first
BufferOf(u) ==
  IF u \in DOMAIN manifestQueueByUuid
  THEN [i \in 1..Len(queue[ManifestQ(u)].entries) |-> queue[ManifestQ(u)].entries[i].value]
  ELSE <<>>

\* how often version v of account u is held: in the account's queue, handed
\* to a waiter that has not yet looked at it, or taken by a waiter
Held(u, v) ==
  Cardinality({i \in 1..Len(BufferOf(u)) : BufferOf(u)[i] = v})
  + Cardinality({w \in Waiters : wsm[w].uuid = u /\ inbox[WaiterProc(w)] = Value(v)})
  + Cardinality({<<w, k>> \in Waiters \X (1..MaxVersion) :
                   /\ wsm[w].uuid = u /\ k <= Len(wsm[w].taken)
                   /\ wsm[w].taken[k] = v})

\* C24: a step that pushes version v for an account adds one holding of v, to
\* the end of the account's queue when no waiter is waiting there (whether or
\* not the queue existed); every other step keeps each version held as often
\* as before, and takes from the queue only its oldest version; no version is
\* held twice.
C24_NotificationsConserved ==
  [][\A u \in Accounts :
       /\ \A v \in Versions :
            /\ Held(u, v)' = Held(u, v)
                 + (IF lastVersion'[u] = v /\ lastVersion[u] # v THEN 1 ELSE 0)
            /\ Held(u, v)' <= 1
       /\ (lastVersion'[u] # lastVersion[u] /\ WaitingOn(u) = <<>>)
            => BufferOf(u)' = Append(BufferOf(u), lastVersion'[u])
       /\ lastVersion'[u] = lastVersion[u]
            => BufferOf(u)' \in {BufferOf(u)} \cup
                 (IF BufferOf(u) = <<>> THEN {} ELSE {Tail(BufferOf(u))})
    ]_vars

\* a version pushed while no waiter was waiting is buffered, after an older
\* version was taken by a waiter
C24_Witness ==
  \E u \in Accounts :
    /\ BufferOf(u) = <<2>>
    /\ wsm[1].uuid = u /\ wsm[1].pc = "done" /\ wsm[1].taken = <<1>>
    /\ wsm[2].pc = "idle"

(***************************************************************************)
(* Server.handleMessage (SpecMessages): listen() has returned; the harness *)
(* creates primary devices and a secondary device while messages for the   *)
(* registered devices come in.  A message has a source or none, and is a   *)
(* SealedSender envelope or another one.                                   *)
(***************************************************************************)
MaxMessages == 2

\* lines 380-398: what handleMessage does with a message for the device t
handleMessage_anyDevice(source, sealed, t) ==
  IF ~(source \/ sealed) THEN "failed"
  ELSE IF ~(UuidKey(t.uuid) \in DOMAIN primaryDevices) THEN "dropped"
  ELSE "forwarded"

handleMessage(source, sealed, t) ==
  IF ~(source \/ sealed) THEN "failed"                         \* 380-383
  ELSE IF t.deviceId # PRIMARY_DEVICE_ID THEN "dropped"        \* 387-390
  ELSE IF ~(UuidKey(t.uuid) \in DOMAIN primaryDevices) THEN "dropped"   \* 392-396
  ELSE "forwarded"                                             \* 398

\* handleMessage(source, envelopeType, target, encrypted): nothing is awaited
\* before primary.handleEnvelope is called, so the call is one step
HandleMessage(source, sealed, target) ==
  /\ hm.n < MaxMessages
  /\ target \in 1..Len(devices)
  /\ LET outcome == handleMessage(source, sealed, devices[target])
     IN /\ hm' = [n |-> hm.n + 1, target |-> target, source |-> source,
                  sealed |-> sealed, outcome |-> outcome]
        /\ handled' = IF outcome = "forwarded"
                      THEN [handled EXCEPT ![primaryDevices[UuidKey(devices[target].uuid)]] = @ + 1]
                      ELSE handled
  /\ UNCHANGED messageFrame

\* createSecondaryDevice(primary) takes a PrimaryDevice, so one exists
CreateSecondaryOf(k, u, registrationId) ==
  /\ UuidKey(u) \in DOMAIN primaryDevices
  /\ CreateSecondaryDevice(k, u, registrationId)

\* listen() has been called once and has returned (SpecLifecycle reaches it)
Listening ==
  /\ https = [set |-> TRUE, closed |-> FALSE]
  /\ emptyAttachment = TRUE
  /\ listeners = 1
  /\ attachments = 1
  /\ lsn = [l \in ListenCalls |-> IF l = 1 THEN "done" ELSE "idle"]

InitMessages ==
  /\ config = constructor(NoConfig)
  /\ queue = (ProvisionQ :> createQueue(config))
  /\ inbox = [p \in AllProcs |-> None]
  /\ caller = [i \in Callers |-> [pc |-> "idle", op |-> 0]]
  /\ nextOp = 0 /\ served = <<>> /\ delivered = <<>> /\ pushed = {} /\ expired = {}
  /\ Listening
  /\ knownNumbers = {}
  /\ primaryDevices = <<>>
  /\ devices = NoDevices
  /\ cpd = [k \in PrimaryCalls |-> [pc |-> "idle", number |-> 0, device |-> 0]]
  /\ manifestQueueByUuid = <<>>
  /\ lastVersion = [u \in Accounts |-> 0]
  /\ wsm = [w \in Waiters |-> IdleWaiter]
  /\ InitLinkState
  /\ InitSchemaState
  /\ InitMessageState

NextMessages ==
  \/ \E k \in PrimaryCalls : CreatePrimaryNumber(k)
  \/ \E k \in PrimaryCalls : CreatePrimaryRegister(k)
  \/ \E k \in PrimaryCalls : CreatePrimaryContacts(k)
  \/ \E k \in PrimaryCalls : CreatePrimaryDone(k)
  \/ \E k \in SecondaryCalls, u \in Accounts, registrationId \in RegistrationIds :
       CreateSecondaryOf(k, u, registrationId)
  \/ \E k \in SecondaryCalls : CreateSecondaryKeys(k)
  \/ \E k \in SecondaryCalls : CreateSecondaryAdd(k)
  \/ \E source \in BOOLEAN, sealed \in BOOLEAN, target \in DeviceIds :
       HandleMessage(source, sealed, target)

SpecMessages == InitMessages /\ [][NextMessages]_vars

\* a createPrimaryDevice call for the account uuid has returned its PrimaryDevice
PrimaryCreated(uuid) == \E k \in PrimaryCalls : k = uuid /\ cpd[k].pc = "done"

\* C25: a handleMessage call without a source for an envelope that is not
\* SealedSender fails; otherwise it makes one handleEnvelope call on the
\* primary of the target's account if the target is device 1 of an account
\* whose createPrimaryDevice has returned, and drops the message if not; it
\* changes nothing else of the server.
C25_ForwardedToPrimaryOnly ==
  [][hm'.n # hm.n =>
       LET t == devices[hm'.target]
           permitted == hm'.source \/ hm'.sealed
           toPrimary == t.deviceId = 1 /\ PrimaryCreated(t.uuid)
       IN /\ ~permitted => hm'.outcome = "failed" /\ handled' = handled
          /\ (permitted /\ toPrimary) =>
               /\ hm'.outcome = "forwarded"
               /\ handled' = [handled EXCEPT ![t.uuid] = @ + 1]
          /\ (permitted /\ ~toPrimary) => hm'.outcome = "dropped" /\ handled' = handled
          /\ UNCHANGED <<primaryDevices, devices, knownNumbers, cpd, csd,
                         secondaryDevices, keysUploaded, queue, inbox>>
    ]_vars

\* after a message forwarded to the primary, a message for the secondary
\* device of the same account has been dropped
C25_Witness ==
  /\ hm.outcome = "dropped" /\ hm.source
  /\ devices[hm.target].deviceId = 2
  /\ PrimaryCreated(devices[hm.target].uuid)
  /\ handled[devices[hm.target].uuid] = 1

(***************************************************************************)
(* The order of createSecondaryDevice (SpecLink)                           *)
(***************************************************************************)
\* the primary of call k lists the device that the call registered
ListedBy(k) == csd[k].device \in secondaryDevices[csd[k].primary]

\* C26: the device of a createSecondaryDevice call is listed by the primary
\* only once its key upload has returned, the call returns only with the
\* device listed, and a call whose key upload failed leaves the device out of
\* the list.
C26_KeysBeforeListed ==
  \A k \in SecondaryCalls :
    csd[k].pc # "idle" =>
      /\ ListedBy(k) => (csd[k].pc = "done" /\ csd[k].device \in keysUploaded)
      /\ csd[k].pc = "done" => (ListedBy(k) /\ csd[k].device \in keysUploaded)
      /\ csd[k].pc \in {"registered", "keys", "timeout"} => ~ListedBy(k)

\* the key upload of a createSecondaryDevice call has failed; the device is
\* registered and not listed
C26_Witness ==
  \E k \in SecondaryCalls :
    /\ csd[k].pc = "timeout"
    /\ csd[k].device \in 1..Len(devices)
    /\ ~ListedBy(k)

=============================================================================
